---- MODULE Spec2Model ----
(***************************************************************************)
(* Caterpillar simulator (lib/src): the chain of somites, the locomotion   *)
(* and gripper phase oscillators, the grip/release state machine, the      *)
(* velocity-Verlet step and the decimated frame export.                    *)
(*                                                                         *)
(* Numbers.  The program computes in f64; the model computes in integers:  *)
(*   - lengths, velocities and forces are integers, the time step dt is 0  *)
(*     or 2 and the somite mass is 1, so that dt*dt/(2*mass) and           *)
(*     dt/(2*mass) of the Verlet formulas are exact;                       *)
(*   - a phase is a number of eighths of a turn (pi/4), sin and cos are    *)
(*     the tables Sin10 and Cos10 (ten times the value, rounded);          *)
(*     thresholds compared against sin are ten times their value;          *)
(*   - a joint angle is a number of hundredths of pi.                      *)
(* The linear spring, damper and torsion spring laws are real functions of *)
(* the chain geometry (norms, arc cosines).  Their resultant on the chain  *)
(* is an input of each step, drawn from InternalForces (every pattern sums *)
(* to zero: they are internal forces).  The joint-angle memo and the       *)
(* tension read-out, which only feed those laws, are not represented.      *)
(***************************************************************************)
EXTENDS Integers, Sequences, FiniteSets, TLC

\* ------------------------------------------------------------------ bounds
\* number of update_state calls explored from construction (simulator)
MaxSteps == 3
\* largest frame index handed to add_frame directly (export harness)
MaxFrameOrder == 6
\* number of update_state calls explored in a plain run (run harness)
MaxRunSteps == 24
\* largest batch handed to steps_with_feedbacks
MaxBatch == 2
\* largest external force left pending on a somite
MaxPending == 2
\* sections of a terrain profile, the default one included (terrain harness)
MaxSections == 3
MaxWalkSteps == 4

\* ------------------------------------------------------- construction input
\* __new__(somite_number, somites_to_set_oscillater, somites_to_set_gripper)
somite_number == 3
somites_to_set_oscillater == {1}
somites_to_set_gripper == {0, 2}

SomiteIds == 0 .. (somite_number - 1)
InteriorIds == 1 .. (somite_number - 2)

\* ------------------------------------------------------------------- config
somite_mass == 1
somite_radius == 2
normal_angular_velocity == 1
realtime_tunable_ts_rom_min == -30
realtime_tunable_ts_rom_max == 50
gripping_shear_stress_k == 1
gripping_shear_stress_c == 1
static_friction_coeff == 3
dynamic_friction_coeff == 2
viscosity_friction_coeff == 1
GRAVITATIONAL_ACCELERATION == 1
STUCK_EPSILON == 1
decimation_span == 10
\* 2*pi in hundredths of pi
TwoPi == 200

\* -0.5, as in the unit tests of dynamics.rs
gripping_phase_threshold == -5

\* Config::default(): pi * 5 / 4, in tenths
default_gripping_phase_threshold == 39

\* the springs between neighbours: natural length half the spacing of the
\* somites at construction
sp_natural_length == 2
sp_k == 1
dp_c == 1

\* --------------------------------------------------------------- Coordinate
Coordinate(x, y, z) == [x |-> x, y |-> y, z |-> z]

Zero == Coordinate(0, 0, 0)

Add(a, b) == Coordinate(a.x + b.x, a.y + b.y, a.z + b.z)

Mul(a, k) == Coordinate(a.x * k, a.y * k, a.z * k)

\* f64 division by a divisor that divides every component (mass 1, or 2*mass
\* under an even dt)
Div(a, k) == Coordinate(a.x \div k, a.y \div k, a.z \div k)

Min(a, b) == IF a <= b THEN a ELSE b

Max(a, b) == IF a >= b THEN a ELSE b

Abs(a) == IF a >= 0 THEN a ELSE -a

Signum(a) == IF a > 0 THEN 1 ELSE IF a < 0 THEN -1 ELSE 0

\* f64 remainder: the sign follows the dividend
Fmod(a, m) == IF a >= 0 THEN a % m ELSE -((-a) % m)

Sin10(phase) == <<0, 7, 10, 7, 0, -7, -10, -7>>[(phase % 8) + 1]

Cos10(phase) == <<10, 7, 0, -7, -10, -7, 0, 7>>[(phase % 8) + 1]

\* ------------------------------------------------------------------- Somite
new_still_somite(position) ==
    [position |-> position, verocity |-> Zero, force |-> Zero,
     gripping_flag |-> FALSE, gripping_point |-> Zero]

set_position(s, position) == [s EXCEPT !.position = position]

is_gripping(s) == s.gripping_flag

\* a contact test that misses a somite resting exactly on the ground (what C19
\* rules out)
Somite_is_above_ground(s, height) == s.position.z < somite_radius + height

\* Somite::is_on_ground against the ground height the terrain passes in
Somite_is_on_ground(s, height) == s.position.z <= somite_radius + height

\* a grip anchored on the floor under the somite (what C27 rules out)
grip_on_floor(s) ==
    IF ~s.gripping_flag
    THEN [s EXCEPT !.gripping_flag = TRUE,
                   !.gripping_point = [s.position EXCEPT !.z = 0]]
    ELSE s

\* a grip that takes a new anchor every time (what C4 rules out)
grip_again(s) == [s EXCEPT !.gripping_flag = TRUE, !.gripping_point = s.position]

grip(s) ==
    IF ~s.gripping_flag
    THEN [s EXCEPT !.gripping_flag = TRUE, !.gripping_point = s.position]
    ELSE s

release(s) == [s EXCEPT !.gripping_flag = FALSE]

\* Option: <<>> is None, <<p>> is Some(p)
get_gripping_point(s) == IF s.gripping_flag THEN <<s.gripping_point>> ELSE <<>>

\* -------------------------------------------------------------- PathHeights
PathHeights_new == [start_points |-> <<0>>, heights |-> <<0>>]

\* PathHeights::set: Err (ok FALSE) leaves the profile as it is
PathHeights_set(ph, start_point, height) ==
    IF start_point < 0
    THEN [ok |-> FALSE, ph |-> ph]
    ELSE [ok |-> TRUE,
          ph |-> [start_points |-> Append(ph.start_points, start_point),
                  heights |-> Append(ph.heights, height)]]

\* index (1-based) of the section whose height the contact test starts from:
\* the one before the first start point beyond x, or the last one
SectionOf(ph, x) ==
    LET beyond == {i \in 1 .. Len(ph.start_points) : ph.start_points[i] > x}
    IN  IF beyond = {} THEN Len(ph.start_points)
        ELSE (CHOOSE i \in beyond : \A j \in beyond : i <= j) - 1

get_height(ph, x) ==
    IF x < ph.start_points[1] THEN ph.heights[1]
    ELSE ph.heights[SectionOf(ph, x)]

\* the body is wedged below the section's floor: the lower neighbour is used
IsStuck(ph, s) ==
    /\ ~(s.position.x < ph.start_points[1])
    /\ s.position.z
         < somite_radius + ph.heights[SectionOf(ph, s.position.x)] - STUCK_EPSILON

\* heights[i-2] with no section before the first: index out of range
is_on_ground_panics(ph, s) ==
    IsStuck(ph, s) /\ SectionOf(ph, s.position.x) = 1

\* a contact test that takes the floor of the section the body is over, stuck
\* or not (what C15 rules out)
PathHeights_is_on_ground_here(ph, s) ==
    Somite_is_on_ground(s, get_height(ph, s.position.x))

PathHeights_is_on_ground(ph, s) ==
    IF s.position.x < ph.start_points[1]
    THEN Somite_is_on_ground(s, ph.heights[1])
    ELSE IF IsStuck(ph, s)
         THEN Somite_is_on_ground(s, ph.heights[SectionOf(ph, s.position.x) - 1])
         ELSE Somite_is_on_ground(s, ph.heights[SectionOf(ph, s.position.x)])

\* ----------------------------------------------------------------- Dynamics
is_blocked_by_obstacle(s, ph) ==
    s.position.z < somite_radius + get_height(ph, s.position.x) - STUCK_EPSILON

gripping_force(resting_point, current_point, verocity) ==
    Coordinate(
        -gripping_shear_stress_k * (current_point.x - resting_point.x)
            - gripping_shear_stress_c * verocity.x,
        0,
        -gripping_shear_stress_k * (current_point.z - resting_point.z)
            - gripping_shear_stress_c * verocity.z)

\* a static friction with no upper limit (what C21 rules out)
shear_friction_unbounded(verocity, applied_force) ==
    IF Abs(verocity.x) > 0
    THEN -Signum(verocity.x) * dynamic_friction_coeff * Abs(Min(applied_force.z, 0))
            + viscosity_friction_coeff * (-verocity.x)
    ELSE -applied_force.x

\* a static friction that always acts at its limit (what C22 rules out)
shear_friction_saturated(verocity, applied_force) ==
    IF Abs(verocity.x) > 0
    THEN -Signum(verocity.x) * dynamic_friction_coeff * Abs(Min(applied_force.z, 0))
            + viscosity_friction_coeff * (-verocity.x)
    ELSE static_friction_coeff * Abs(Min(applied_force.z, 0))
            * (-Signum(applied_force.x))

shear_friction(verocity, applied_force) ==
    LET normal_force == Abs(Min(applied_force.z, 0))
        max_static_friction == static_friction_coeff * normal_force
    IN  IF Abs(verocity.x) > 0
        THEN -Signum(verocity.x) * dynamic_friction_coeff * normal_force
                + viscosity_friction_coeff * (-verocity.x)
        ELSE IF Abs(applied_force.x) > max_static_friction
             THEN max_static_friction * (-Signum(applied_force.x))
             ELSE -applied_force.x

calculate_gripping_force(s, applied_force) ==
    gripping_force(s.gripping_point, s.position, s.verocity)

calculate_friction(s, applied_force) ==
    Coordinate(shear_friction(s.verocity, applied_force), 0, 0)

\* Dynamics::calculate_somite_shear_force
calculate_somite_shear_force(somite, applied_force, has_leg) ==
    IF has_leg /\ get_gripping_point(somite) # <<>>
    THEN gripping_force(get_gripping_point(somite)[1], somite.position,
                        somite.verocity)
    ELSE IF Somite_is_on_ground(somite, 0)
         THEN Coordinate(shear_friction(somite.verocity, applied_force), 0, 0)
         ELSE Zero

\* an engage decision that ignores ground contact (what C1 rules out)
should_grip_in_air(d, s, phase, ph) ==
    /\ Sin10(phase) < d.grip_phase_threshold
    /\ ~is_gripping(s)

should_grip(d, s, phase, ph) ==
    /\ Sin10(phase) < d.grip_phase_threshold
    /\ PathHeights_is_on_ground(ph, s)
    /\ ~is_gripping(s)

\* the contact test of should_grip is reached (the sine test passed) and fails
should_grip_panics(d, s, phase, ph) ==
    /\ Sin10(phase) < d.grip_phase_threshold
    /\ is_on_ground_panics(ph, s)

\* a release decision that waits for ground contact (what C2 rules out)
should_release_on_ground(d, s, phase) ==
    /\ Sin10(phase) >= d.grip_phase_threshold
    /\ Somite_is_on_ground(s, 0)
    /\ is_gripping(s)

should_release(d, s, phase) ==
    /\ Sin10(phase) >= d.grip_phase_threshold
    /\ is_gripping(s)

\* ------------------------------------------------------------ TorsionSpring
\* angles are counted in half epsilons
TS_EPSILON == 2

\* the spring is [k0, k1, standard]; the joints bend about the y axis
TorsionSpring_new(k0, k1) ==
    [spring_constant_k0 |-> k0, spring_constant_k1 |-> k1,
     standard_vector |-> Coordinate(0, 1, 0)]

inner_product(a, b) == a.x * b.x + a.y * b.y + a.z * b.z

cross_product(a, b) ==
    Coordinate(a.y * b.z - a.z * b.y, a.z * b.x - a.x * b.z, a.x * b.y - a.y * b.x)

\* Coordinate::norm of a vector along one axis
norm(v) == Abs(v.x) + Abs(v.y) + Abs(v.z)

project(ts, v) ==
    Add(v, Mul(ts.standard_vector, -inner_product(ts.standard_vector, v)))

calculate_spring_constant(ts, target_angle) ==
    ts.spring_constant_k0 + ts.spring_constant_k1 * Abs(target_angle)

normal_vector(ts, v) ==
    Div(cross_product(ts.standard_vector, project(ts, v)), norm(project(ts, v)))

\* TorsionSpring::force_on_discrepancy: the forces on the tip and on the base
force_on_discrepancy(ts, base, center, tip, discrepancy_angle_angle) ==
    IF discrepancy_angle_angle < TS_EPSILON
    THEN <<Zero, Zero>>
    ELSE <<Mul(normal_vector(ts, Add(tip, Mul(center, -1))),
               calculate_spring_constant(ts, discrepancy_angle_angle)
                  * discrepancy_angle_angle),
           Mul(normal_vector(ts, Add(center, Mul(base, -1))),
               calculate_spring_constant(ts, discrepancy_angle_angle)
                  * discrepancy_angle_angle)>>

\* -------------------------------------------------------- SimulationProc
\* an export that rejects only an index it already holds (what C5 rules out)
add_frame_unordered(frames, frame_order) ==
    IF frame_order \in frames
    THEN <<>>
    ELSE <<frames \cup {frame_order}>>

\* frames is the set of keys of the frame map; None (<<>>) is the panic
add_frame(frames, frame_order) ==
    IF \E k \in frames : frame_order <= k
    THEN <<>>
    ELSE <<frames \cup {frame_order}>>

\* -------------------------------------------------------------- Caterpillar
phase2torsion_spring_target_angle(phase, range_min, range_max) ==
    ((range_max - range_min) * (10 - Cos10(phase))) \div 20 + range_min

\* least element of a non-empty set of somite ids
First(S) == CHOOSE i \in S : \A j \in S : i <= j

\* position after the half step of the velocity-Verlet scheme
free_position(s, dt) ==
    Add(Add(s.position, Mul(s.verocity, dt)),
        Div(Mul(s.force, dt * dt), 2 * somite_mass))

\* a half step that lets a gripping somite rise or sink (what C16 rules out)
keep_height_free(s, p) == p

\* a gripping somite keeps its height
keep_height(s, p) == IF is_gripping(s) THEN [p EXCEPT !.z = s.position.z] ELSE p

\* a somite blocked by an obstacle does not advance
keep_behind(s, ph, p) ==
    IF is_blocked_by_obstacle(s, ph)
    THEN [p EXCEPT !.x = Min(s.position.x, p.x)]
    ELSE p

update_somite_positions(somites, ph, dt) ==
    [i \in DOMAIN somites |->
        set_position(somites[i],
            keep_behind(somites[i], ph,
                keep_height(somites[i], free_position(somites[i], dt))))]

add_gravitational_forces(forces) ==
    [i \in DOMAIN forces |->
        [forces[i] EXCEPT !.z = @ - GRAVITATIONAL_ACCELERATION * somite_mass]]

\* a grip decision that lets go of a body in the air (what C3 rules out)
update_gripper_dropping(d, s, phase, ph) ==
    IF should_grip(d, s, phase, ph) THEN grip(s)
    ELSE IF should_release(d, s, phase) \/ ~Somite_is_on_ground(s, 0) THEN release(s)
    ELSE s

\* the grip decision of one gripper-equipped somite
update_gripper(d, s, phase, ph) ==
    IF should_grip(d, s, phase, ph) THEN grip(s)
    ELSE IF should_release(d, s, phase) THEN release(s)
    ELSE s

\* the somite at which a loop over the somites fails, or -1
FirstOrNone(failing) == IF failing = {} THEN -1 ELSE First(failing)

\* the loop has dealt with somite i before stopping
reached(stop, i) == stop = -1 \/ i < stop

\* a loop that has every somite follow the oscillator of the first gripper
\* (what C28 rules out)
grippers_updated_all(somites, gripping_oscillators, d, ph, stop) ==
    [stop |-> stop,
     somites |->
        [i \in DOMAIN somites |->
            IF reached(stop, i)
            THEN update_gripper(d, somites[i],
                    gripping_oscillators[First(DOMAIN gripping_oscillators)], ph)
            ELSE somites[i]]]

\* the somites after the loop of update_grippers that stops at `stop`
grippers_updated(somites, gripping_oscillators, d, ph, stop) ==
    [stop |-> stop,
     somites |->
        [i \in DOMAIN somites |->
            IF i \in DOMAIN gripping_oscillators /\ reached(stop, i)
            THEN update_gripper(d, somites[i], gripping_oscillators[i], ph)
            ELSE somites[i]]]

\* somites in index order; the loop stops at the first somite whose contact
\* test fails.  Result: the somites, and the failing somite (or -1)
update_grippers(somites, gripping_oscillators, d, ph) ==
    grippers_updated(somites, gripping_oscillators, d, ph,
        FirstOrNone({i \in DOMAIN gripping_oscillators :
            should_grip_panics(d, somites[i], gripping_oscillators[i], ph)}))

\* the branch add_gripping_forces takes for a somite
holds_point(s) == get_gripping_point(s) # <<>>

rests(s, ph) == ~holds_point(s) /\ PathHeights_is_on_ground(ph, s)

\* the forces and read-outs after the loop of add_gripping_forces that stops
\* at `stop`
gripping_forces_added(somites, forces, frictional_forces, gripping_forces, ph, stop) ==
    [stop |-> stop,
     forces |->
        [i \in DOMAIN somites |->
            IF reached(stop, i) /\ holds_point(somites[i])
            THEN Add(forces[i], calculate_gripping_force(somites[i], forces[i]))
            ELSE IF reached(stop, i) /\ rests(somites[i], ph)
            THEN Add(forces[i], calculate_friction(somites[i], forces[i]))
            ELSE forces[i]],
     gripping_forces |->
        [i \in DOMAIN somites |->
            IF reached(stop, i) /\ holds_point(somites[i])
            THEN calculate_gripping_force(somites[i], forces[i])
            ELSE IF reached(stop, i) /\ rests(somites[i], ph) THEN Zero
            ELSE gripping_forces[i]],
     frictional_forces |->
        [i \in DOMAIN somites |->
            IF reached(stop, i) /\ holds_point(somites[i]) THEN Zero
            ELSE IF reached(stop, i) /\ rests(somites[i], ph)
            THEN calculate_friction(somites[i], forces[i])
            ELSE frictional_forces[i]]]

\* Result: the forces, the two read-outs, and the failing somite (or -1)
add_gripping_forces(somites, forces, frictional_forces, gripping_forces, ph) ==
    gripping_forces_added(somites, forces, frictional_forces, gripping_forces, ph,
        FirstOrNone({i \in DOMAIN somites :
            ~holds_point(somites[i]) /\ is_on_ground_panics(ph, somites[i])}))

mask_force_on_landing_panics(somites, ph) ==
    \E i \in DOMAIN somites : is_on_ground_panics(ph, somites[i])

\* a force assembly that ends without the landing mask (what C18 rules out)
mask_force_on_landing_skipped(somites, forces, ph) == forces

mask_force_on_landing(somites, forces, ph) ==
    [i \in DOMAIN somites |->
        IF PathHeights_is_on_ground(ph, somites[i])
        THEN [forces[i] EXCEPT !.z = Max(@, 0)]
        ELSE forces[i]]

\* velocity after the second half step
free_verocity(s, new_force, dt) ==
    Add(s.verocity, Div(Mul(Add(s.force, new_force), dt), 2 * somite_mass))

\* a velocity half step that lets a resting somite sink (what C17 rules out)
land_verocity_sinking(s, ph, v) ==
    IF is_gripping(s) THEN [v EXCEPT !.z = 0] ELSE v

\* a gripping somite has no vertical velocity, a resting one does not sink
land_verocity(s, ph, v) ==
    IF is_gripping(s) THEN [v EXCEPT !.z = 0]
    ELSE IF PathHeights_is_on_ground(ph, s) THEN [v EXCEPT !.z = Max(@, 0)]
    ELSE v

update_somite_verocities(somites, new_forces, ph, dt) ==
    [i \in DOMAIN somites |->
        [somites[i] EXCEPT
            !.verocity = land_verocity(somites[i], ph,
                            free_verocity(somites[i], new_forces[i], dt))]]

update_somite_forces(somites, new_forces) ==
    [i \in DOMAIN somites |-> [somites[i] EXCEPT !.force = new_forces[i]]]

\* target angle of the actuator torsion spring of every interior somite that
\* carries an oscillator (the target_angle local of the force assembly)
vertical_target_angles(oscillators) ==
    [i \in InteriorIds \cap DOMAIN oscillators |->
        phase2torsion_spring_target_angle(
            oscillators[i], realtime_tunable_ts_rom_min, realtime_tunable_ts_rom_max)]

ZeroForces == [i \in SomiteIds |-> Zero]

\* The force assembly works on r = [st, forces]: st the mutable fields of the
\* Caterpillar object, forces the local new_forces.  st carries status "panic"
\* and the fields as written so far when the assembly fails part-way.

\* a force assembly that reads the pending forces and leaves them pending
\* (what C11 rules out)
collect_forces_kept(st, internal) ==
    [st |-> st,
     forces |-> [i \in DOMAIN st.somites |->
                    Add(add_gravitational_forces(st.temp_forces)[i], internal[i])]]

\* the pending external forces are taken and replaced by zero; gravity is
\* added; internal is the resultant of the spring, damper and torsion-spring
\* forces of this step
collect_forces(st, internal) ==
    [st |-> [st EXCEPT !.temp_forces = [i \in DOMAIN @ |-> Zero]],
     forces |-> [i \in DOMAIN st.somites |->
                    Add(add_gravitational_forces(st.temp_forces)[i], internal[i])]]

\* the target angles the actuator torsion springs are driven to
aim_actuators(r) ==
    [r EXCEPT !.st.actuator_target_angles = vertical_target_angles(r.st.oscillators)]

\* add_gripping_forces has returned ag; then mask_force_on_landing
land(r, ag) ==
    IF ag.stop # -1 \/ mask_force_on_landing_panics(r.st.somites, r.st.path_heights)
    THEN [st |-> [r.st EXCEPT !.frictional_forces = ag.frictional_forces,
                              !.gripping_forces = ag.gripping_forces,
                              !.status = "panic"],
          forces |-> ag.forces]
    ELSE [st |-> [r.st EXCEPT !.frictional_forces = ag.frictional_forces,
                              !.gripping_forces = ag.gripping_forces],
          forces |-> mask_force_on_landing(r.st.somites, ag.forces,
                                           r.st.path_heights)]

\* update_grippers has returned ug; then add_gripping_forces
hold(r, ug) ==
    IF ug.stop # -1
    THEN [r EXCEPT !.st.somites = ug.somites, !.st.status = "panic"]
    ELSE land([r EXCEPT !.st.somites = ug.somites],
              add_gripping_forces(ug.somites, r.forces, r.st.frictional_forces,
                                  r.st.gripping_forces, r.st.path_heights))

grip_and_land(r) ==
    hold(r, update_grippers(r.st.somites, r.st.gripping_oscillators,
                            r.st.dynamics, r.st.path_heights))

calculate_force_on_somites(st, dt, internal) ==
    IF dt = 0
    THEN \* differentiate(previous, angle, 0) is None; unwrap fails
         [collect_forces(st, internal) EXCEPT !.st.status = "panic"]
    ELSE grip_and_land(aim_actuators(collect_forces(st, internal)))

\* add_frame has returned saved
frame_saved(st, saved) ==
    IF saved = <<>>
    THEN [st EXCEPT !.status = "panic"]
    ELSE [st EXCEPT !.frames = saved[1], !.frame_count = @ + 1]

\* a frame saving that tags the snapshot with the step count itself (what C6
\* rules out)
save_simulation_result_undivided(st) ==
    IF st.frame_count % decimation_span = 0
    THEN frame_saved(st, add_frame(st.frames, st.frame_count))
    ELSE [st EXCEPT !.frame_count = @ + 1]

\* the tail of update_state: every decimation_span-th state is handed to the
\* export with index frame_count / decimation_span, then the counter advances
save_simulation_result(st) ==
    IF st.frame_count % decimation_span = 0
    THEN frame_saved(st, add_frame(st.frames, st.frame_count \div decimation_span))
    ELSE [st EXCEPT !.frame_count = @ + 1]

\* the forces cf are assembled: velocities, stored forces, frame
finish_update(cf, dt) ==
    IF cf.st.status = "panic" THEN cf.st
    ELSE save_simulation_result(
            [cf.st EXCEPT
                !.somites = update_somite_forces(
                    update_somite_verocities(@, cf.forces, cf.st.path_heights, dt),
                    cf.forces)])

update_state(st, dt, internal) ==
    finish_update(
        calculate_force_on_somites(
            [st EXCEPT !.somites = update_somite_positions(@, st.path_heights, dt)],
            dt, internal),
        dt)

\* Spring::force between two somites of equal height that do not coincide
Spring_force(base, tip) ==
    IF Abs(tip.x - base.x) = sp_natural_length
    THEN Zero
    ELSE Coordinate(
            -sp_k * (Abs(tip.x - base.x) - sp_natural_length) * Signum(tip.x - base.x),
            0, 0)

\* Dumper::force
Dumper_force(base_verocity, tip_verocity) ==
    Mul(Add(tip_verocity, Mul(base_verocity, -1)), -dp_c)

\* the force of the spring between somite i and its neighbour j, on i
spring_from(somites, i, j) ==
    IF j \in DOMAIN somites
    THEN Spring_force(somites[j].position, somites[i].position)
    ELSE Zero

add_spring_forces(somites, forces) ==
    [i \in DOMAIN somites |->
        Add(Add(forces[i], spring_from(somites, i, i - 1)),
            spring_from(somites, i, i + 1))]

\* the force of the damper between somite i and its neighbour j, on i
dumper_from(somites, i, j) ==
    IF j \in DOMAIN somites
    THEN Dumper_force(somites[j].verocity, somites[i].verocity)
    ELSE Zero

add_dumper_forces(somites, forces) ==
    [i \in DOMAIN somites |->
        Add(Add(forces[i], dumper_from(somites, i, i - 1)),
            dumper_from(somites, i, i + 1))]

\* the spring and damper forces of a straight chain lying along x; its
\* torsion springs are at their target angle and add nothing
chain_forces(somites) ==
    add_dumper_forces(somites,
        add_spring_forces(somites, [i \in DOMAIN somites |-> Zero]))

\* PhaseOscillator::step of the root crate
oscillator_step_legacy(phase, phase_speed, dt) == phase + phase_speed * dt

\* ---- the Caterpillar of the root crate: fixed time step, one oscillator
\* map, no gripper and no terrain
CONFIG_time_delta == 2
CONFIG_friction_coeff == 1

\* update_somite_positions of the root crate
legacy_update_somite_positions(somites) ==
    [i \in DOMAIN somites |->
        set_position(somites[i], free_position(somites[i], CONFIG_time_delta))]

\* the force on somite i: pending external force, gravity, friction on the
\* ground, the spring, damper and torsion-spring resultant, then the landing
\* mask
legacy_force(s, pending, internal) ==
    LET pushed_down == Add(pending,
                           Coordinate(0, 0, -GRAVITATIONAL_ACCELERATION * somite_mass))
        rubbed == IF Somite_is_on_ground(s, 0)
                  THEN Add(pushed_down,
                           Coordinate(s.verocity.x * (-CONFIG_friction_coeff),
                                      s.verocity.y * (-CONFIG_friction_coeff), 0))
                  ELSE pushed_down
        summed == Add(rubbed, internal)
    IN  IF Somite_is_on_ground(s, 0) THEN [summed EXCEPT !.z = Max(@, 0)] ELSE summed

\* update_somite_verocities of the root crate
legacy_verocity(s, new_force) ==
    IF Somite_is_on_ground(s, 0)
    THEN [free_verocity(s, new_force, CONFIG_time_delta) EXCEPT !.z = Max(@, 0)]
    ELSE free_verocity(s, new_force, CONFIG_time_delta)

\* the somites after positions, forces and velocities are updated
legacy_somites(moved, temp_forces, internal) ==
    [i \in DOMAIN moved |->
        [moved[i] EXCEPT
            !.verocity = legacy_verocity(moved[i],
                            legacy_force(moved[i], temp_forces[i], internal[i])),
            !.force = legacy_force(moved[i], temp_forces[i], internal[i])]]

\* update_state of the root crate: every state is saved (decimation_span 1).
\* The force assembly unwraps the oscillator of every interior somite
legacy_update_state(st, internal) ==
    IF \E i \in DOMAIN st.somites :
          /\ i - 1 \in DOMAIN st.somites /\ i + 1 \in DOMAIN st.somites
          /\ i \notin DOMAIN st.oscillators
    THEN [st EXCEPT !.somites = legacy_update_somite_positions(@),
                    !.temp_forces = [i \in DOMAIN @ |-> Zero],
                    !.status = "panic"]
    ELSE frame_saved(
            [st EXCEPT
                !.somites = legacy_somites(legacy_update_somite_positions(@),
                                           st.temp_forces, internal),
                !.temp_forces = [i \in DOMAIN @ |-> Zero]],
            add_frame(st.frames, st.frame_count))

\* step_with_feedback of the root crate: the k-th feedback goes to the k-th
\* oscillator the iterator of the hash map yields
fed_in_iteration_order(phases, keys, feedbacks) ==
    [id \in DOMAIN phases |->
        oscillator_step_legacy(
            phases[id],
            normal_angular_velocity
                + feedbacks[CHOOSE k \in DOMAIN keys : keys[k] = id],
            CONFIG_time_delta)]

\* PhaseOscillator::step
oscillator_step(phase, phase_speed, time_delta) == phase + phase_speed * time_delta

\* oscillator_ids and gripping_oscillator_ids hold the ids of the two maps in
\* increasing order: entry i is the id with i smaller ids
order2somite_oscillator_id(st, i) ==
    CHOOSE id \in DOMAIN st.oscillators :
        Cardinality({j \in DOMAIN st.oscillators : j < id}) = i

order2gripping_oscillator_id(st, i) ==
    CHOOSE id \in DOMAIN st.gripping_oscillators :
        Cardinality({j \in DOMAIN st.gripping_oscillators : j < id}) = i

\* position (0-based) of id in the sorted ids
OrderOf(ids, id) == Cardinality({j \in ids : j < id})


\* ------------------------------------------------------------------ inputs
\* resultants of the spring, damper and torsion-spring forces on the chain:
\* none; the joint bends (middle up, ends down); the chain contracts along x
InternalForces ==
    { ZeroForces,
      [i \in SomiteIds |-> IF i \in InteriorIds THEN Coordinate(0, 0, 4)
                           ELSE Coordinate(0, 0, -2)],
      [i \in SomiteIds |-> IF i = 0 THEN Coordinate(2, 0, 0)
                           ELSE IF i = somite_number - 1 THEN Coordinate(-2, 0, 0)
                           ELSE Zero] }

\* what the callers of the simulator hand to the step calls: the time steps
\* and internal resultants of step, those of the other step calls, and the
\* tuples (of the right and of a wrong length)
SimulatorInputs ==
    [limit |-> MaxSteps,
     dts |-> {0, 2},
     internals |-> InternalForces,
     feedbacks_somites |-> {<<1>>, <<>>},
     feedbacks_grippers |-> {<<2, 0>>, <<0>>},
     batch_feedbacks_somites |-> {<<0>>, <<0, 0>>},
     batch_feedbacks_grippers |-> {<<0, 2>>, <<0, 0, 0>>},
     somite_target_angles |-> {<<20>>, <<>>},
     gripper_target_angles |-> {<<6, 2>>, <<6>>}]

\* single and batched calls handed the same feedback tuples
BatchInputs ==
    [limit |-> MaxSteps,
     feedbacks_somites |-> {<<1>>, <<0>>, <<>>},
     feedbacks_grippers |-> {<<2, 0>>, <<0, 1>>, <<0>>},
     batch_feedbacks_somites |-> {<<1>>, <<0>>, <<>>},
     batch_feedbacks_grippers |-> {<<2, 0>>, <<0, 1>>, <<0>>}]

\* plain steps and steps with pinned joint angles and gripper phases
PinnedInputs ==
    [limit |-> MaxSteps,
     dts |-> {0, 2},
     internals |-> {ZeroForces},
     somite_target_angles |-> {<<20>>, <<-10>>, <<>>},
     gripper_target_angles |-> {<<6, 2>>, <<2, 6>>, <<6>>}]

\* steps between which the caller injects forces
ForceRunInputs ==
    [limit |-> MaxSteps,
     dts |-> {0, 2},
     internals |-> {ZeroForces}]

\* steps of a chain that is slack, sags (ends up, middle down) or stretches
WalkInputs ==
    [limit |-> MaxWalkSteps,
     dts |-> {0, 2},
     internals |->
        {ZeroForces,
         [i \in SomiteIds |-> IF i \in InteriorIds THEN Coordinate(0, 0, -2)
                              ELSE Coordinate(0, 0, 4)],
         [i \in SomiteIds |-> IF i = 0 THEN Coordinate(-2, 0, 0)
                              ELSE IF i = somite_number - 1 THEN Coordinate(2, 0, 0)
                              ELSE Zero]}]

\* steps of a quarter turn and of a whole turn (eight eighths), which leaves
\* every oscillator where it is in its cycle, under the forces of WalkInputs
GripInputs ==
    [limit |-> MaxWalkSteps,
     dts |-> {2, 8},
     internals |-> WalkInputs.internals]

\* repeated step(dt) with dt > 0: a quarter turn of every oscillator a step
LiveInputs ==
    [limit |-> MaxFrameOrder,
     dts |-> {2},
     internals |-> WalkInputs.internals]

\* a long run on flat ground with no feedback
RunInputs ==
    [limit |-> MaxRunSteps,
     dts |-> {0, 2},
     internals |-> {ZeroForces},
     feedbacks_somites |-> {<<0>>, <<>>},
     feedbacks_grippers |-> {<<0, 0>>, <<0>>},
     batch_feedbacks_somites |-> {<<0>>, <<0, 0>>},
     batch_feedbacks_grippers |-> {<<0, 0>>, <<0, 0, 0>>},
     somite_target_angles |-> {<<20>>, <<>>},
     gripper_target_angles |-> {<<6, 2>>, <<6>>}]

\* the root crate's chain: an oscillator on every interior somite
legacy_somite_number == 4
LegacyOscillators == 1 .. (legacy_somite_number - 2)

\* resultants of its springs, dampers and torsion springs: none; the chain
\* arches
LegacyInternals ==
    { [i \in 0 .. (legacy_somite_number - 1) |-> Zero],
      [i \in 0 .. (legacy_somite_number - 1) |->
          IF i \in LegacyOscillators THEN Coordinate(0, 0, 4)
          ELSE Coordinate(0, 0, -2)] }

\* feedback tuples, of the right and of a wrong length
LegacyFeedbacks == {<<0, 2>>, <<1, 1>>, <<1>>}

\* the somites and applied forces Dynamics is asked about: x-velocity, height,
\* and the two components of the applied force
ShearVelocities == {-2, 0, 2}
ShearHeights == {somite_radius, somite_radius + 2}
AppliedXs == {-20, -5, 0, 5, 18, 20}
AppliedZs == {-6, 0, 2}

\* the joints a torsion spring is asked about: base, centre and tip one
\* somite spacing apart, straight or bent at a right angle; its constants and
\* the discrepancy angles
JointShapes ==
    {<<Coordinate(0, 0, 0), Coordinate(4, 0, 0), Coordinate(8, 0, 0)>>,
     <<Coordinate(0, 0, 0), Coordinate(4, 0, 0), Coordinate(4, 0, 4)>>,
     <<Coordinate(0, 0, 4), Coordinate(0, 0, 0), Coordinate(4, 0, 0)>>,
     <<Coordinate(8, 0, 0), Coordinate(4, 0, 0), Coordinate(4, 0, -4)>>}
SpringConstants == {<<1, 0>>, <<2, 0>>, <<1, 1>>, <<2, 1>>}
DiscrepancyAngles == {-4, -2, -1, 0, 1, 2, 4}

\* time steps of a run
\* tuples handed to set_oscillation_ranges
AngleRangeInputs ==
    {<<>>, <<10>>, <<20>>, <<10, 20>>, <<20, 10>>, <<20, 10, 40>>}

TimeDeltas == {0, 1, 2, 3, 4}

PositionInputs ==
    {Coordinate(0, 0, somite_radius + 2), Coordinate(0, 0, somite_radius - 2)}
ForceInputs == {Coordinate(0, 0, 2), Coordinate(0, 0, 1), Coordinate(1, 0, 0)}
ThresholdInputs == {<<5, -5>>, <<5>>}
TargetAngleInputs == {<<1, 250>>, <<0, 20>>}
GripperPhaseInputs == {<<2, 6>>, <<1, 6>>}
\* what PathHeights::set is handed, and where the profile is probed
TerrainStarts == {-1, 0, 2, 4}
TerrainHeights == {0, 2, 4}
ProbeXs == {-1, 1, 3, 5}
ProbeZs == {0, 1, 2, 3, 5, 6}

\* positions handed to Somite::set_position directly
SomitePositions ==
    {Coordinate(x, 0, z) : x \in 0 .. 2, z \in {somite_radius, somite_radius + 2}}

\* -------------------------------------------------------------------- state
VARIABLES
    somites,                \* Vec<Somite>, tail to head
    temp_forces,            \* external force pending on each somite
    oscillators,            \* somite id -> phase of its actuator oscillator
    gripping_oscillators,   \* somite id -> phase of its gripper oscillator
    gripping_thresholds,    \* somite id -> tunable gripping threshold
    target_angles,          \* somite id -> pinned target angle
    frictional_forces,      \* friction read-out per somite
    gripping_forces,        \* gripping force read-out per somite
    actuator_target_angles, \* target angles used by the last force assembly
    frame_count,
    frames,                 \* keys of simulation_protocol.frames
    dynamics,               \* Dynamics (grip_phase_threshold)
    path_heights,
    oscillator_keys,        \* the keys of the oscillators hash map in the order
                            \* its iterator yields them
    oscillation_ranges,     \* range of motion of the actuator on a somite id
    status,                 \* "ok", or "panic" once a call has aborted
    call                    \* the last call: its name, and the time step,
                            \* somite id and tuple lengths it was given

vars == <<somites, temp_forces, oscillators, gripping_oscillators,
          gripping_thresholds, target_angles, frictional_forces, gripping_forces,
          actuator_target_angles, frame_count, frames, dynamics, path_heights,
          oscillator_keys, oscillation_ranges, status, call>>

\* the fields of the object
simvars == <<somites, temp_forces, oscillators, gripping_oscillators,
             gripping_thresholds, target_angles, frictional_forces,
             gripping_forces, actuator_target_angles, frame_count, frames,
             dynamics, path_heights, oscillator_keys, oscillation_ranges>>

St ==
    [somites |-> somites, temp_forces |-> temp_forces, oscillators |-> oscillators,
     gripping_oscillators |-> gripping_oscillators,
     gripping_thresholds |-> gripping_thresholds, target_angles |-> target_angles,
     frictional_forces |-> frictional_forces, gripping_forces |-> gripping_forces,
     actuator_target_angles |-> actuator_target_angles,
     frame_count |-> frame_count, frames |-> frames, dynamics |-> dynamics,
     path_heights |-> path_heights, oscillator_keys |-> oscillator_keys,
     oscillation_ranges |-> oscillation_ranges,
     status |-> status]

Commit(r) ==
    /\ somites' = r.somites
    /\ temp_forces' = r.temp_forces
    /\ oscillators' = r.oscillators
    /\ gripping_oscillators' = r.gripping_oscillators
    /\ gripping_thresholds' = r.gripping_thresholds
    /\ target_angles' = r.target_angles
    /\ frictional_forces' = r.frictional_forces
    /\ gripping_forces' = r.gripping_forces
    /\ actuator_target_angles' = r.actuator_target_angles
    /\ frame_count' = r.frame_count
    /\ frames' = r.frames
    /\ dynamics' = r.dynamics
    /\ path_heights' = r.path_heights
    /\ oscillator_keys' = r.oscillator_keys
    /\ oscillation_ranges' = r.oscillation_ranges
    /\ status' = r.status

\* panic!: the call aborts with the object as it is
Panic == /\ status' = "panic"
         /\ UNCHANGED simvars

\* the orders in which a hash map with the keys S can yield them: the hasher
\* is seeded per map, so every order is possible and stays the same while the
\* map is not modified
key_orders(S) ==
    {s \in [1 .. Cardinality(S) -> S] : \A id \in S : \E k \in DOMAIN s : s[k] = id}

\* Caterpillar::__new__(number, oscillater, gripper, kwargs, heights) with the
\* default configuration and a terrain profile
Caterpillar_configured(number, oscillater, gripper, heights, threshold) ==
    /\ somites = [i \in 0 .. (number - 1) |->
                    new_still_somite(
                        Coordinate(i * 2 * somite_radius, 0, somite_radius))]
    /\ temp_forces = [i \in 0 .. (number - 1) |-> Zero]
    /\ oscillators = [i \in oscillater |-> 0]
    /\ gripping_oscillators = [i \in gripper |-> 0]
    /\ gripping_thresholds = [i \in gripper |-> threshold]
    /\ dynamics = [grip_phase_threshold |-> threshold]
    /\ target_angles = <<>>
    /\ frictional_forces = [i \in 0 .. (number - 1) |-> Zero]
    /\ gripping_forces = [i \in 0 .. (number - 1) |-> Zero]
    /\ actuator_target_angles = <<>>
    /\ frame_count = 0
    /\ frames = {}
    /\ path_heights = heights
    /\ oscillator_keys \in key_orders(oscillater)
    /\ oscillation_ranges = [i \in oscillater |-> realtime_tunable_ts_rom_min]
    /\ status = "ok"
    /\ call = [op |-> "new", arg |-> <<>>]

\* configured with gripping_phase_threshold = -0.5
Caterpillar_of(number, oscillater, gripper, heights) ==
    Caterpillar_configured(number, oscillater, gripper, heights,
                           gripping_phase_threshold)

\* the three-somite caterpillar on a terrain profile
Caterpillar_new(heights) ==
    Caterpillar_of(somite_number, somites_to_set_oscillater,
                   somites_to_set_gripper, heights)

\* the default terrain
Init == Caterpillar_new(PathHeights_new)

\* a chain of five somites with no oscillator and no gripper
resting_somite_number == 5

InitResting == Caterpillar_of(resting_somite_number, {}, {}, PathHeights_new)

InitLegacy ==
    Caterpillar_of(legacy_somite_number, LegacyOscillators, {}, PathHeights_new)

\* the three-somite caterpillar with no kwargs: Config::default()
InitDefault ==
    Caterpillar_configured(somite_number, somites_to_set_oscillater,
                           somites_to_set_gripper, PathHeights_new,
                           default_gripping_phase_threshold)

\* a chain of four somites with its oscillators on any of them
placed_somite_number == 4

InitPlaced ==
    \E oscillater \in SUBSET (0 .. (placed_somite_number - 1)) :
        Caterpillar_of(placed_somite_number, oscillater, {}, PathHeights_new)

\* a floor that rises by one radius half-way between the last two somites
StepUp == PathHeights_set(PathHeights_new, 3 * somite_radius, somite_radius).ph

InitOnStep == Caterpillar_new(StepUp)

\* --------------------------------------------------------------- operations
\* every oscillator advances at the normal angular velocity (step)
advance(st, dt) ==
    [st EXCEPT
        !.oscillators =
            [id \in DOMAIN @ |-> oscillator_step(@[id], normal_angular_velocity, dt)],
        !.gripping_oscillators =
            [id \in DOMAIN @ |-> oscillator_step(@[id], normal_angular_velocity, dt)]]

\* phases after `for (i, f) in feedbacks.enumerate()`: the oscillator on
\* ids[i] advances at normal_angular_velocity + f
fed(phases, ids, feedbacks, dt) ==
    [id \in DOMAIN phases |->
        LET hits == {i \in 0 .. (Len(feedbacks) - 1) : ids[i + 1] = id}
        IN  IF hits = {} THEN phases[id]
            ELSE oscillator_step(phases[id],
                                 normal_angular_velocity + feedbacks[First(hits) + 1],
                                 dt)]

advance_with_feedbacks(st, dt, feedbacks_somites, feedbacks_grippers) ==
    [st EXCEPT
        !.oscillators =
            fed(@, [i \in 1 .. Len(feedbacks_somites) |->
                       order2somite_oscillator_id(st, i - 1)],
                feedbacks_somites, dt),
        !.gripping_oscillators =
            fed(@, [i \in 1 .. Len(feedbacks_grippers) |->
                       order2gripping_oscillator_id(st, i - 1)],
                feedbacks_grippers, dt)]

\* a batch that simulates one step however many it is asked for (what C24
\* rules out)
run_steps_once(st, dt, feedbacks_somites, feedbacks_grippers, internals) ==
    IF internals = <<>> \/ st.status = "panic" THEN st
    ELSE update_state(
            advance_with_feedbacks(st, dt, feedbacks_somites, feedbacks_grippers),
            dt, Head(internals))

\* the loop of steps_with_feedbacks: one entry of internals per iteration;
\* a failing iteration ends the call
RECURSIVE run_steps(_, _, _, _, _)
run_steps(st, dt, feedbacks_somites, feedbacks_grippers, internals) ==
    IF internals = <<>> \/ st.status = "panic" THEN st
    ELSE run_steps(
            update_state(
                advance_with_feedbacks(st, dt, feedbacks_somites, feedbacks_grippers),
                dt, Head(internals)),
            dt, feedbacks_somites, feedbacks_grippers, Tail(internals))

\* the loop of set_oscillation_ranges from its i-th value on:
\* oscillation_ranges.get(&i).unwrap().set(r)
RECURSIVE set_ranges(_, _, _)
set_ranges(st, angle_ranges, i) ==
    IF i = Len(angle_ranges) THEN st
    ELSE IF i \notin DOMAIN st.oscillation_ranges
         THEN [st EXCEPT !.status = "panic"]
         ELSE set_ranges([st EXCEPT !.oscillation_ranges[i] = angle_ranges[i + 1]],
                         angle_ranges, i + 1)

\* HashMap::insert
insert(map, key, value) ==
    [k \in DOMAIN map \cup {key} |-> IF k = key THEN value ELSE map[k]]

\* target_angles.insert(i + 1, angle) for the i-th angle, i from 0
insert_target_angles(map, angles) ==
    [k \in DOMAIN map \cup (1 .. Len(angles)) |->
        IF k \in 1 .. Len(angles) THEN angles[k] ELSE map[k]]

\* gripper oscillators turned by the supplied phases instead of set to them
\* (what C26 rules out)
set_gripper_phases_added(phases, gripper_target_angles) ==
    [id \in DOMAIN phases |->
        phases[id] + gripper_target_angles[OrderOf(DOMAIN phases, id) + 1]]

\* the gripper found i-th walking the somites in index order takes the i-th
\* phase
set_gripper_phases(phases, gripper_target_angles) ==
    [id \in DOMAIN phases |-> gripper_target_angles[OrderOf(DOMAIN phases, id) + 1]]

\* the length checks of step_with_feedbacks and steps_with_feedbacks
feedbacks_inconsistent(st, feedbacks_somites, feedbacks_grippers) ==
    \/ Len(feedbacks_somites) # Cardinality(DOMAIN st.oscillators)
    \/ Len(feedbacks_grippers) # Cardinality(DOMAIN st.gripping_oscillators)

\* a length check that forgets the joint angles (what C9 rules out)
grippers_inconsistent(st, somite_target_angles, gripper_target_angles) ==
    Len(gripper_target_angles) # Cardinality(DOMAIN st.gripping_oscillators)

\* the length checks of step_with_target_angles
target_angles_inconsistent(st, somite_target_angles, gripper_target_angles) ==
    \/ Len(somite_target_angles) # Cardinality(DOMAIN st.somites) - 2
    \/ Len(gripper_target_angles) # Cardinality(DOMAIN st.gripping_oscillators)

step(in) ==
    /\ status = "ok"
    /\ frame_count < in.limit
    /\ \E dt \in in.dts, internal \in in.internals :
          /\ Commit(update_state(advance(St, dt), dt, internal))
          /\ call' = [op |-> "step", arg |-> <<dt>>]

\* step on a straight chain, with the spring and damper forces it is under
\* once its positions are updated
step_chain ==
    /\ status = "ok"
    /\ frame_count < MaxRunSteps
    /\ \E dt \in TimeDeltas :
          /\ Commit(update_state(advance(St, dt), dt,
                    chain_forces(update_somite_positions(somites, path_heights, dt))))
          /\ call' = [op |-> "step", arg |-> <<dt>>]

\* step of the root crate
legacy_step ==
    /\ status = "ok"
    /\ frame_count < MaxSteps
    /\ \E internal \in LegacyInternals :
          Commit(legacy_update_state(
                    [St EXCEPT !.oscillators =
                        [id \in DOMAIN @ |->
                            oscillator_step_legacy(@[id], normal_angular_velocity,
                                                   CONFIG_time_delta)]],
                    internal))
    /\ call' = [op |-> "step", arg |-> <<CONFIG_time_delta>>]

\* step_with_feedback of the root crate
legacy_step_with_feedback ==
    /\ status = "ok"
    /\ frame_count < MaxSteps
    /\ \E feedbacks \in LegacyFeedbacks, internal \in LegacyInternals :
          /\ IF Len(feedbacks) # Cardinality(DOMAIN oscillators)
             THEN Panic
             ELSE Commit(legacy_update_state(
                     [St EXCEPT !.oscillators =
                         fed_in_iteration_order(@, oscillator_keys, feedbacks)],
                     internal))
          /\ call' = [op |-> "step_with_feedback", arg |-> <<CONFIG_time_delta, feedbacks>>]

step_with_feedbacks(in) ==
    /\ status = "ok"
    /\ frame_count < in.limit
    /\ \E fs \in in.feedbacks_somites, fg \in in.feedbacks_grippers :
          /\ IF feedbacks_inconsistent(St, fs, fg)
             THEN Panic
             ELSE Commit(update_state(advance_with_feedbacks(St, 2, fs, fg),
                                      2, ZeroForces))
          /\ call' = [op |-> "step_with_feedbacks", arg |-> <<2, Len(fs), Len(fg), fs, fg>>]

steps_with_feedbacks(in) ==
    /\ status = "ok"
    /\ \E steps \in 0 .. MaxBatch,
          fs \in in.batch_feedbacks_somites, fg \in in.batch_feedbacks_grippers :
          /\ frame_count + steps <= in.limit
          /\ IF feedbacks_inconsistent(St, fs, fg)
             THEN Panic
             ELSE Commit(run_steps(St, 2, fs, fg, [i \in 1 .. steps |-> ZeroForces]))
          /\ call' = [op |-> "steps_with_feedbacks",
                      arg |-> <<2, steps, Len(fs), Len(fg), fs, fg>>]

set_oscillation_ranges ==
    /\ status = "ok"
    /\ \E angle_ranges \in AngleRangeInputs :
          /\ IF Len(angle_ranges) # Cardinality(DOMAIN oscillators)
             THEN Panic
             ELSE Commit(set_ranges(St, angle_ranges, 0))
          /\ call' = [op |-> "set_oscillation_ranges", arg |-> <<angle_ranges>>]

step_with_target_angles(in) ==
    /\ status = "ok"
    /\ frame_count < in.limit
    /\ \E sa \in in.somite_target_angles, ga \in in.gripper_target_angles :
          /\ IF target_angles_inconsistent(St, sa, ga)
             THEN Panic
             ELSE Commit(update_state(
                     [St EXCEPT
                        !.target_angles = insert_target_angles(@, sa),
                        !.gripping_oscillators = set_gripper_phases(@, ga)],
                     2, ZeroForces))
          /\ call' = [op |-> "step_with_target_angles",
                      arg |-> <<2, Len(sa), Len(ga), sa, ga>>]

set_positions ==
    /\ status = "ok"
    /\ \E somite \in {0}, p \in PositionInputs :
          /\ somites' = [somites EXCEPT ![somite] = set_position(@, p)]
          /\ call' = [op |-> "set_positions", arg |-> <<somite>>]
    /\ UNCHANGED <<temp_forces, oscillators, gripping_oscillators,
                   gripping_thresholds, target_angles, frictional_forces,
                   gripping_forces, actuator_target_angles, frame_count, frames,
                   dynamics, path_heights, oscillator_keys, oscillation_ranges, status>>

set_force_on_somite ==
    /\ status = "ok"
    /\ \E somite_number_ \in InteriorIds, force \in ForceInputs :
          /\ Abs(temp_forces[somite_number_].x + force.x)
                + Abs(temp_forces[somite_number_].z + force.z) <= MaxPending
          /\ temp_forces' = [temp_forces EXCEPT ![somite_number_] = Add(@, force)]
          /\ call' = [op |-> "set_force_on_somite",
                      arg |-> <<somite_number_, force.x, force.y, force.z>>]
    /\ UNCHANGED <<somites, oscillators, gripping_oscillators,
                   gripping_thresholds, target_angles, frictional_forces,
                   gripping_forces, actuator_target_angles, frame_count, frames,
                   dynamics, path_heights, oscillator_keys, oscillation_ranges, status>>

set_gripping_phase_thresholds ==
    /\ status = "ok"
    /\ \E phase_thresholds \in ThresholdInputs :
          /\ IF Len(phase_thresholds) # Cardinality(DOMAIN gripping_oscillators)
             THEN Panic
             ELSE /\ gripping_thresholds' =
                        [id \in DOMAIN gripping_thresholds |->
                            LET hits == {i \in 0 .. (Len(phase_thresholds) - 1) :
                                           order2gripping_oscillator_id(St, i) = id}
                            IN  IF hits = {} THEN gripping_thresholds[id]
                                ELSE phase_thresholds[First(hits) + 1]]
                  /\ UNCHANGED <<somites, temp_forces, oscillators,
                                 gripping_oscillators, target_angles,
                                 frictional_forces, gripping_forces,
                                 actuator_target_angles, frame_count, frames,
                                 dynamics, path_heights, oscillator_keys,
                                 oscillation_ranges, status>>
          /\ call' = [op |-> "set_gripping_phase_thresholds",
                      arg |-> <<Len(phase_thresholds)>>]

set_target_angle ==
    /\ status = "ok"
    /\ \E input \in TargetAngleInputs :
          LET target_somite_oscillartor == input[1]
              target_angle == input[2]
          IN  /\ IF target_somite_oscillartor \notin DOMAIN oscillators
                 THEN Panic
                 ELSE /\ target_angles' =
                            insert(target_angles, target_somite_oscillartor,
                                   Fmod(target_angle, TwoPi))
                      /\ UNCHANGED <<somites, temp_forces, oscillators,
                                     gripping_oscillators, gripping_thresholds,
                                     frictional_forces, gripping_forces,
                                     actuator_target_angles, frame_count, frames,
                                     dynamics, path_heights, oscillator_keys,
                                     oscillation_ranges, status>>
              /\ call' = [op |-> "set_target_angle",
                          arg |-> <<target_somite_oscillartor>>]

set_gripper_phase ==
    /\ status = "ok"
    /\ \E input \in GripperPhaseInputs :
          LET somite_id == input[1]
              phase == input[2]
          IN  /\ IF somite_id \notin DOMAIN gripping_oscillators
                 THEN Panic
                 ELSE /\ gripping_oscillators' =
                            [gripping_oscillators EXCEPT ![somite_id] = phase]
                      /\ UNCHANGED <<somites, temp_forces, oscillators,
                                     gripping_thresholds, target_angles,
                                     frictional_forces, gripping_forces,
                                     actuator_target_angles, frame_count, frames,
                                     dynamics, path_heights, oscillator_keys,
                                     oscillation_ranges, status>>
              /\ call' = [op |-> "set_gripper_phase", arg |-> <<somite_id>>]

\* ---- calls on one Somite (the first), as the unit tests of somite.rs make
somite_set_position ==
    /\ status = "ok"
    /\ \E p \in SomitePositions :
          somites' = [somites EXCEPT ![0] = set_position(@, p)]
    /\ call' = [op |-> "Somite::set_position", arg |-> <<0>>]
    /\ UNCHANGED <<temp_forces, oscillators, gripping_oscillators,
                   gripping_thresholds, target_angles, frictional_forces,
                   gripping_forces, actuator_target_angles, frame_count, frames,
                   dynamics, path_heights, oscillator_keys, oscillation_ranges, status>>

somite_grip ==
    /\ status = "ok"
    /\ somites' = [somites EXCEPT ![0] = grip(@)]
    /\ call' = [op |-> "Somite::grip", arg |-> <<0>>]
    /\ UNCHANGED <<temp_forces, oscillators, gripping_oscillators,
                   gripping_thresholds, target_angles, frictional_forces,
                   gripping_forces, actuator_target_angles, frame_count, frames,
                   dynamics, path_heights, oscillator_keys, oscillation_ranges, status>>

somite_release ==
    /\ status = "ok"
    /\ somites' = [somites EXCEPT ![0] = release(@)]
    /\ call' = [op |-> "Somite::release", arg |-> <<0>>]
    /\ UNCHANGED <<temp_forces, oscillators, gripping_oscillators,
                   gripping_thresholds, target_angles, frictional_forces,
                   gripping_forces, actuator_target_angles, frame_count, frames,
                   dynamics, path_heights, oscillator_keys, oscillation_ranges, status>>

\* ---- calls on the SimulationProc, as the unit tests of simulation_export.rs
\* make
proc_add_frame ==
    /\ status = "ok"
    /\ \E frame_order \in 0 .. MaxFrameOrder :
          /\ IF add_frame(frames, frame_order) = <<>>
             THEN Panic
             ELSE /\ frames' = add_frame(frames, frame_order)[1]
                  /\ UNCHANGED <<somites, temp_forces, oscillators,
                                 gripping_oscillators, gripping_thresholds,
                                 target_angles, frictional_forces, gripping_forces,
                                 actuator_target_angles, frame_count, dynamics,
                                 path_heights, oscillator_keys,
                                 oscillation_ranges, status>>
          /\ call' = [op |-> "SimulationProc::add_frame", arg |-> <<frame_order>>]

\* ---- calls on one PathHeights, as parse_path_heights and the contact tests
\* make; a query leaves its arguments and result in call
path_heights_set ==
    /\ status = "ok"
    /\ Len(path_heights.start_points) < MaxSections
    /\ \E start_point \in TerrainStarts, height \in TerrainHeights :
          /\ path_heights' = PathHeights_set(path_heights, start_point, height).ph
          /\ call' = [op |-> "PathHeights::set",
                      arg |-> <<start_point, height,
                                IF PathHeights_set(path_heights, start_point,
                                                   height).ok
                                THEN 1 ELSE 0>>]
    /\ UNCHANGED <<somites, temp_forces, oscillators, gripping_oscillators,
                   gripping_thresholds, target_angles, frictional_forces,
                   gripping_forces, actuator_target_angles, frame_count, frames,
                   dynamics, oscillator_keys, oscillation_ranges, status>>

path_heights_get_height ==
    /\ status = "ok"
    /\ \E x \in ProbeXs :
          call' = [op |-> "PathHeights::get_height",
                   arg |-> <<x, get_height(path_heights, x)>>]
    /\ UNCHANGED simvars
    /\ UNCHANGED status

\* ---- calls on a TorsionSpring, as add_realtime_tunable_torsion_spring_forces
\* makes them
torsion_spring_force_on_discrepancy ==
    /\ status = "ok"
    /\ \E k \in SpringConstants, joint \in JointShapes, d \in DiscrepancyAngles :
          call' = [op |-> "TorsionSpring::force_on_discrepancy",
                   arg |-> <<k, joint, d,
                             force_on_discrepancy(TorsionSpring_new(k[1], k[2]),
                                                  joint[1], joint[2], joint[3], d)>>]
    /\ UNCHANGED simvars
    /\ UNCHANGED status

\* ---- calls on Dynamics with a somite of its own, as its unit tests make them
dynamics_shear_force ==
    /\ status = "ok"
    /\ \E vx \in ShearVelocities, z \in ShearHeights, gripped \in BOOLEAN,
          fx \in AppliedXs, fz \in AppliedZs, has_leg \in BOOLEAN :
          LET still == [new_still_somite(Coordinate(0, 0, z))
                            EXCEPT !.verocity = Coordinate(vx, 0, 0)]
              somite == IF gripped THEN grip(still) ELSE still
              shear == calculate_somite_shear_force(
                           somite, Coordinate(fx, 0, fz), has_leg)
          IN  call' = [op |-> "Dynamics::calculate_somite_shear_force",
                       arg |-> <<vx, z, gripped, fx, fz, has_leg, shear.x, shear.z>>]
    /\ UNCHANGED simvars
    /\ UNCHANGED status

path_heights_is_on_ground ==
    /\ status = "ok"
    /\ \E x \in ProbeXs, z \in ProbeZs :
          IF is_on_ground_panics(path_heights,
                                 new_still_somite(Coordinate(x, 0, z)))
          THEN /\ Panic
               /\ call' = [op |-> "PathHeights::is_on_ground", arg |-> <<x, z>>]
          ELSE /\ call' = [op |-> "PathHeights::is_on_ground",
                           arg |-> <<x, z,
                                     IF PathHeights_is_on_ground(
                                            path_heights,
                                            new_still_somite(Coordinate(x, 0, z)))
                                     THEN 1 ELSE 0>>]
               /\ UNCHANGED simvars
               /\ UNCHANGED status

\* ----------------------------------------------------------- specifications
\* the simulator driven through its step calls and tunables
Next ==
    \/ step(SimulatorInputs)
    \/ step_with_feedbacks(SimulatorInputs)
    \/ steps_with_feedbacks(SimulatorInputs)
    \/ step_with_target_angles(SimulatorInputs)
    \/ set_positions
    \/ set_gripping_phase_thresholds
    \/ set_target_angle
    \/ set_gripper_phase

Spec == Init /\ [][Next]_vars

\* a long run of step calls
NextRun ==
    \/ step(RunInputs)
    \/ step_with_feedbacks(RunInputs)
    \/ steps_with_feedbacks(RunInputs)
    \/ step_with_target_angles(RunInputs)

SpecRun == Init /\ [][NextRun]_vars

\* forces injected between steps
NextForce ==
    \/ set_force_on_somite
    \/ step(ForceRunInputs)

SpecForce == Init /\ [][NextForce]_vars

\* a walk towards a rising floor
NextWalk ==
    \/ step(WalkInputs)
    \/ set_positions

SpecWalk == InitOnStep /\ [][NextWalk]_vars

\* a chain left to rest
NextRest == step_chain

SpecRest == InitResting /\ [][NextRest]_vars

\* the root crate's simulator
NextLegacy ==
    \/ legacy_step
    \/ legacy_step_with_feedback

SpecLegacy == InitLegacy /\ [][NextLegacy]_vars

\* single and batched steps with feedback
NextBatch ==
    \/ step_with_feedbacks(BatchInputs)
    \/ steps_with_feedbacks(BatchInputs)

SpecBatch == Init /\ [][NextBatch]_vars

\* the ranges of motion tuned on any placement of the oscillators
NextPlaced == set_oscillation_ranges

SpecPlaced == InitPlaced /\ [][NextPlaced]_vars

\* steps with the joint angles and gripper phases pinned by the caller
NextPinned ==
    \/ step(PinnedInputs)
    \/ step_with_target_angles(PinnedInputs)

SpecPinned == Init /\ [][NextPinned]_vars

\* nothing but step calls, on the floor with a rise
NextGrip == step(GripInputs)

SpecGrip == InitOnStep /\ [][NextGrip]_vars

\* repeated step calls
NextLive == step(LiveInputs)

\* what a step that returns does to the frame counter
step_returns ==
    /\ status = "ok"
    /\ frame_count < LiveInputs.limit
    /\ frame_count' = frame_count + 1

\* the caller keeps calling step until the run is over
SpecLive == InitDefault /\ [][NextLive]_vars /\ WF_frame_count(step_returns)

\* the same run configured with gripping_phase_threshold = -0.5
SpecLiveTuned == Init /\ [][NextLive]_vars /\ WF_frame_count(step_returns)

\* the friction and gripping forces of one somite
NextDynamics == dynamics_shear_force

SpecDynamics == Init /\ [][NextDynamics]_vars

\* one torsion spring
NextTorsion == torsion_spring_force_on_discrepancy

SpecTorsion == Init /\ [][NextTorsion]_vars

\* one terrain profile
NextTerrain ==
    \/ path_heights_set
    \/ path_heights_get_height
    \/ path_heights_is_on_ground

SpecTerrain == Init /\ [][NextTerrain]_vars

\* one somite
NextSomite ==
    \/ somite_set_position
    \/ somite_grip
    \/ somite_release

SpecSomite == Init /\ [][NextSomite]_vars

\* one export buffer
NextExport == proc_add_frame

SpecExport == Init /\ [][NextExport]_vars

\* --------------------------------------------------------------- properties
StepOps ==
    {"step", "step_with_feedbacks", "steps_with_feedbacks", "step_with_target_angles"}

\* the call just made ran update_state once, to its end.  At the grip
\* evaluation of that update the body of gripper i is at somites'[i].position,
\* its oscillator at gripping_oscillators'[i], and its grip state is still
\* that of somites[i]
OneUpdate == status = "ok" /\ status' = "ok" /\ frame_count' = frame_count + 1

phase_sine_below(i, threshold) == Sin10(gripping_oscillators'[i]) < threshold

in_ground_contact(s) ==
    s.position.z <= somite_radius + get_height(path_heights, s.position.x)

engage_condition(i) ==
    /\ phase_sine_below(i, dynamics.grip_phase_threshold)
    /\ in_ground_contact(somites'[i])
    /\ ~somites[i].gripping_flag

release_condition(i) ==
    /\ ~phase_sine_below(i, dynamics.grip_phase_threshold)
    /\ somites[i].gripping_flag

\* C1: in the grip evaluation of a step, a gripper-equipped body goes from
\* released to gripped, anchored at its current position, exactly when the sine
\* of its gripper phase is below the grip threshold, it is in ground contact
\* and it is not gripped; otherwise it does not become gripped
C1_Engage ==
    [][OneUpdate =>
        \A i \in DOMAIN gripping_oscillators :
            /\ engage_condition(i) =>
                  /\ somites'[i].gripping_flag
                  /\ somites'[i].gripping_point = somites'[i].position
            /\ (~somites[i].gripping_flag /\ somites'[i].gripping_flag)
                  => engage_condition(i)]_vars

\* a first step has just gripped the tail somite where it stands
C1_Witness ==
    /\ status = "ok"
    /\ call.op \in StepOps
    /\ frame_count = 1
    /\ somites[0].gripping_flag
    /\ somites[0].gripping_point = somites[0].position
    /\ Sin10(gripping_oscillators[0]) < dynamics.grip_phase_threshold
    /\ in_ground_contact(somites[0])

\* C2: in the grip evaluation of a step, a gripper-equipped body goes from
\* gripped to released exactly when the sine of its gripper phase is at or
\* above the grip threshold and it is gripped, in ground contact or not
C2_Release ==
    [][OneUpdate =>
        \A i \in DOMAIN gripping_oscillators :
            (somites[i].gripping_flag /\ ~somites'[i].gripping_flag)
                <=> release_condition(i)]_vars

\* a step has just released the tail somite in the air: it has an anchor from
\* an earlier grip, its sine is at or above the threshold
C2_Witness ==
    /\ status = "ok"
    /\ call.op \in StepOps
    /\ ~somites[0].gripping_flag
    /\ somites[0].gripping_point # Zero
    /\ ~in_ground_contact(somites[0])
    /\ Sin10(gripping_oscillators[0]) >= dynamics.grip_phase_threshold

\* C3: in a step where neither the engage nor the release condition holds for
\* a gripper-equipped body, its grip flag and anchor stay as they are (so a
\* gripped body in the air with the sine below the threshold stays gripped on
\* the same anchor), and the two conditions never hold together
C3_NoOtherTransition ==
    [][OneUpdate =>
        \A i \in DOMAIN gripping_oscillators :
            /\ ~(engage_condition(i) /\ release_condition(i))
            /\ (~engage_condition(i) /\ ~release_condition(i)) =>
                  /\ somites'[i].gripping_flag = somites[i].gripping_flag
                  /\ somites'[i].gripping_point = somites[i].gripping_point]_vars

\* a step has just left the tail somite gripped in the air, sine below the
\* threshold, anchored on the ground where it gripped earlier
C3_Witness ==
    /\ status = "ok"
    /\ call.op \in StepOps
    /\ frame_count >= 2
    /\ somites[0].gripping_flag
    /\ ~in_ground_contact(somites[0])
    /\ Sin10(gripping_oscillators[0]) < dynamics.grip_phase_threshold
    /\ somites[0].gripping_point.z = somite_radius

\* C4: while a body is gripped, grip() and set_position() leave the flag set
\* and the anchor where it is; grip() on a released body anchors it at its
\* position.  So over grip() and set_position() calls with no release() the
\* anchor is the position at the first grip()
C4_GripIdempotence ==
    [][/\ (somites[0].gripping_flag
            /\ call'.op \in {"Somite::grip", "Somite::set_position"}) =>
              /\ somites'[0].gripping_flag
              /\ somites'[0].gripping_point = somites[0].gripping_point
       /\ (~somites[0].gripping_flag /\ call'.op = "Somite::grip") =>
              /\ somites'[0].gripping_flag
              /\ somites'[0].gripping_point = somites[0].position
              /\ somites'[0].position = somites[0].position]_vars

\* grip() has just been called on a gripped body that has moved off its anchor
C4_Witness ==
    /\ call.op = "Somite::grip"
    /\ somites[0].gripping_flag
    /\ somites[0].gripping_point # somites[0].position

\* C5: add_frame(index) fails fatally and stores nothing when index is less
\* than or equal to a stored index; it stores the frame when index is above
\* every stored index or nothing is stored
C5_AddFrameMonotone ==
    [][call'.op = "SimulationProc::add_frame" =>
        IF \E k \in frames : call'.arg[1] <= k
        THEN status' = "panic" /\ frames' = frames
        ELSE status' = "ok" /\ frames' = frames \cup {call'.arg[1]}
                            /\ frames' # frames]_vars

\* add_frame has just rejected an index that is already stored
C5_Witness ==
    /\ status = "panic"
    /\ call.op = "SimulationProc::add_frame"
    /\ call.arg[1] \in frames
    /\ Cardinality(frames) >= 2

\* the simulated steps a call asks for
steps_asked(c) == IF c.op = "steps_with_feedbacks" THEN c.arg[2] ELSE 1

\* a call handed tuples of the wrong length
wrong_length(c) ==
    \/ /\ c.op = "step_with_feedbacks"
       /\ \/ c.arg[2] # Cardinality(DOMAIN oscillators)
          \/ c.arg[3] # Cardinality(DOMAIN gripping_oscillators)
    \/ /\ c.op = "steps_with_feedbacks"
       /\ \/ c.arg[3] # Cardinality(DOMAIN oscillators)
          \/ c.arg[4] # Cardinality(DOMAIN gripping_oscillators)
    \/ /\ c.op = "step_with_target_angles"
       /\ \/ c.arg[2] # somite_number - 2
          \/ c.arg[3] # Cardinality(DOMAIN gripping_oscillators)

\* the frame indices of the steps counted from..(to - 1)
snapshots(from, to) ==
    {c \div 10 : c \in {c \in from .. (to - 1) : c % 10 = 0}}

\* C6: every step call of any variant that returns has advanced the frame
\* counter by one per simulated step and has appended a snapshot exactly for
\* the steps whose 0-based count is a multiple of 10, with index count / 10;
\* a step call fails only on tuples of the wrong length or a zero time step,
\* never on a rejected snapshot
C6_SnapshotDecimation ==
    /\ [](frames = snapshots(0, frame_count))
    /\ [][call'.op \in StepOps =>
            IF status' = "ok"
            THEN /\ frame_count' = frame_count + steps_asked(call')
                 /\ frames' = frames \cup snapshots(frame_count, frame_count')
                 /\ \A k \in frames' \ frames : \A j \in frames : j < k
            ELSE wrong_length(call') \/ call'.arg[1] = 0]_vars

\* a run has passed its third snapshot
C6_Witness ==
    /\ status = "ok"
    /\ frame_count = 21
    /\ frames = {0, 1, 2}
    /\ call.op = "steps_with_feedbacks"

\* C7: a target angle pinned for joint i is the target angle the next force
\* assembly drives the actuator torsion spring of joint i to
C7_PinnedTargetAngleUsed ==
    [][OneUpdate =>
        \A i \in DOMAIN target_angles' \cap DOMAIN actuator_target_angles' :
            actuator_target_angles'[i] = target_angles'[i]]_vars

\* C8: set_target_angle and set_gripper_phase on a body without the oscillator
\* return to the caller and leave the simulator as it is
C8_UnknownIdRecoverable ==
    [][(\/ call'.op = "set_target_angle" /\ call'.arg[1] \notin DOMAIN oscillators
        \/ call'.op = "set_gripper_phase"
              /\ call'.arg[1] \notin DOMAIN gripping_oscillators) =>
            status' = "ok" /\ UNCHANGED simvars]_vars

\* C9: a step call handed a tuple of the wrong length aborts with every field
\* of the simulator as it was
C9_WrongLengthAtomic ==
    [][(call'.op \in StepOps /\ wrong_length(call')) =>
            status' = "panic" /\ UNCHANGED simvars]_vars

\* step_with_target_angles has just aborted on a missing joint angle, some
\* steps into a run in which a gripper holds
C9_Witness ==
    /\ status = "panic"
    /\ call.op = "step_with_target_angles"
    /\ call.arg[2] # somite_number - 2
    /\ call.arg[3] = Cardinality(DOMAIN gripping_oscillators)
    /\ frame_count > 0
    /\ \E i \in SomiteIds : somites[i].gripping_flag

\* C10: once thresholds are set, the engage and release decisions of each
\* gripper compare the sine of its phase with the threshold set for it
C10_TunedThresholdsUsed ==
    [][OneUpdate =>
        \A i \in DOMAIN gripping_oscillators :
            /\ (~somites[i].gripping_flag /\ somites'[i].gripping_flag)
                  <=> /\ phase_sine_below(i, gripping_thresholds[i])
                      /\ in_ground_contact(somites'[i])
                      /\ ~somites[i].gripping_flag
            /\ (somites[i].gripping_flag /\ ~somites'[i].gripping_flag)
                  <=> /\ ~phase_sine_below(i, gripping_thresholds[i])
                      /\ somites[i].gripping_flag]_vars

\* the pending force and gravity on somite i as a step finds them
pushed(i) ==
    Add(temp_forces[i],
        Coordinate(0, 0, -GRAVITATIONAL_ACCELERATION * somite_mass))

\* C11: set_force_on_somite(i, f) adds f to the pending force of body i and
\* touches nothing else; the step that follows assembles its forces from the
\* pending sum (seen in the force it stores for a body that holds no grip: the
\* sum plus gravity in the air, its z-component masked at zero on the ground)
\* and leaves the pending force of every body zero
C11_ExternalForceOneShot ==
    [][/\ call'.op = "set_force_on_somite" =>
            /\ temp_forces' =
                  [temp_forces EXCEPT ![call'.arg[1]] =
                      Add(@, Coordinate(call'.arg[2], call'.arg[3], call'.arg[4]))]
            /\ UNCHANGED <<somites, oscillators, gripping_oscillators, frame_count,
                           frames, status>>
       /\ (call'.op = "step" /\ status' = "ok") =>
            /\ temp_forces' = ZeroForces
            /\ \A i \in SomiteIds :
                  ~somites'[i].gripping_flag =>
                      IF in_ground_contact(somites'[i])
                      THEN somites'[i].force.z = Max(pushed(i).z, 0)
                      ELSE somites'[i].force = pushed(i)]_vars

\* the first step has just consumed two injected forces, (1, 0, 0) and
\* (0, 0, 1), on the middle somite: their sum lifts the weight off the ground,
\* so no friction answers the push along x
C11_Witness ==
    /\ status = "ok"
    /\ call.op = "step"
    /\ frame_count = 1
    /\ temp_forces = ZeroForces
    /\ somites[1].force = Coordinate(1, 0, 0)

\* the start points of a profile increase strictly
ordered(ph) ==
    \A i, j \in 1 .. Len(ph.start_points) :
        i < j => ph.start_points[i] < ph.start_points[j]

\* C12: a profile always begins with the entry (0, default height) and its
\* start points increase strictly; set with a negative start point is
\* rejected and leaves the profile as it is
C12_TerrainOrdered ==
    /\ [](/\ path_heights.start_points[1] = 0
          /\ path_heights.heights[1] = 0
          /\ ordered(path_heights))
    /\ [][(call'.op = "PathHeights::set" /\ call'.arg[1] < 0) =>
            call'.arg[3] = 0 /\ path_heights' = path_heights]_vars

\* the entries of the profile that start at or before x
entries_upto(ph, x) == {i \in 1 .. Len(ph.start_points) : ph.start_points[i] <= x}

\* C13: get_height(x) is the height of the last entry whose start point is at
\* or before x, and the height of the first entry for x before every start
\* point
C13_TerrainStepFunction ==
    [][call'.op = "PathHeights::get_height" =>
        call'.arg[2] =
            IF entries_upto(path_heights, call'.arg[1]) = {}
            THEN path_heights.heights[1]
            ELSE path_heights.heights[
                    CHOOSE i \in entries_upto(path_heights, call'.arg[1]) :
                        \A j \in entries_upto(path_heights, call'.arg[1]) : j <= i]]_vars

\* C14: is_on_ground returns for every profile and every body position
C14_ContactTotal ==
    [][call'.op = "PathHeights::is_on_ground" =>
        status' = "ok" /\ Len(call'.arg) = 3 /\ call'.arg[3] \in {0, 1}]_vars

\* the body at (x, z) is below the floor of the section it is over by more
\* than the stuck epsilon
stuck_at(ph, x, z) ==
    /\ x >= ph.start_points[1]
    /\ z < somite_radius + get_height(ph, x) - STUCK_EPSILON

\* C15: on an ordered profile, the contact test of a body stuck below the
\* floor of the section it is over, with a section before it, is the test
\* against the lower of the two floors, whether the step rises or falls
C15_StuckUsesLower ==
    [][(/\ call'.op = "PathHeights::is_on_ground"
        /\ status' = "ok"
        /\ ordered(path_heights)
        /\ stuck_at(path_heights, call'.arg[1], call'.arg[2])) =>
            (call'.arg[3] = 1 <=>
                call'.arg[2] <= somite_radius
                    + Min(path_heights.heights[SectionOf(path_heights, call'.arg[1])],
                          path_heights.heights[SectionOf(path_heights, call'.arg[1]) - 1])
            )]_vars

\* is_on_ground has just answered no for a body wedged at a rising step:
\* below the floor of the upper section it is over, above the reach of the
\* lower one
C15_Witness ==
    /\ call.op = "PathHeights::is_on_ground"
    /\ status = "ok"
    /\ ordered(path_heights)
    /\ Len(path_heights.start_points) = 2
    /\ path_heights.heights[2] > path_heights.heights[1]
    /\ call.arg[1] >= path_heights.start_points[2]
    /\ stuck_at(path_heights, call.arg[1], call.arg[2])
    /\ call.arg[3] = 0

\* C16: in every step a body gripped at the start of the step keeps its z, a
\* body blocked by an obstacle does not advance in x, and a body neither
\* gripped nor blocked moves to x + v*dt + 0.5*(F/m)*dt^2 with F the force the
\* previous step stored
verlet(x, v, f, dt, p) == 2 * somite_mass * (p - x - v * dt) = f * dt * dt

blocked(s) == s.position.z < somite_radius + get_height(path_heights, s.position.x) - STUCK_EPSILON

C16_PositionHalfStep ==
    [][(status = "ok" /\ call'.op = "step") =>
        \A i \in SomiteIds :
            /\ somites[i].gripping_flag =>
                  somites'[i].position.z = somites[i].position.z
            /\ blocked(somites[i]) =>
                  somites'[i].position.x <= somites[i].position.x
            /\ (~somites[i].gripping_flag /\ ~blocked(somites[i])) =>
                  /\ verlet(somites[i].position.x, somites[i].verocity.x,
                            somites[i].force.x, call'.arg[1], somites'[i].position.x)
                  /\ verlet(somites[i].position.y, somites[i].verocity.y,
                            somites[i].force.y, call'.arg[1], somites'[i].position.y)
                  /\ verlet(somites[i].position.z, somites[i].verocity.z,
                            somites[i].force.z, call'.arg[1], somites'[i].position.z)]_vars

C16_Witness ==
    /\ call.op = "step" /\ call.arg[1] = 2 /\ status = "ok"
    /\ \E i \in SomiteIds :
          /\ ~somites[i].gripping_flag
          /\ somites[i].gripping_point = somites[i].position
          /\ somites[i].verocity.z > 0

\* ground contact of a body: against the floor of the section it is over, or,
\* when it is stuck below that floor, against the lower of that floor and the
\* preceding one
ground_contact(s) ==
    IF /\ stuck_at(path_heights, s.position.x, s.position.z)
       /\ SectionOf(path_heights, s.position.x) > 1
    THEN s.position.z <= somite_radius
            + Min(path_heights.heights[SectionOf(path_heights, s.position.x)],
                  path_heights.heights[SectionOf(path_heights, s.position.x) - 1])
    ELSE s.position.z <= somite_radius + get_height(path_heights, s.position.x)

\* C17: after every step a body that is gripped (by the grip state the step
\* decided) has z-velocity 0, and a body that is not gripped and is in ground
\* contact has z-velocity >= 0
C17_VelocityClamps ==
    (call.op = "step" /\ status = "ok") =>
        \A i \in SomiteIds :
            /\ somites[i].gripping_flag => somites[i].verocity.z = 0
            /\ (~somites[i].gripping_flag /\ ground_contact(somites[i])) =>
                  somites[i].verocity.z >= 0

C17_Witness ==
    /\ call.op = "step" /\ status = "ok"
    /\ \E i \in SomiteIds :
          /\ ~somites[i].gripping_flag
          /\ ground_contact(somites[i])
          /\ somites[i].position.z < somite_radius
          /\ somites[i].position.x < 0
          /\ somites[i].verocity.z = 0

\* C18: the force a step stores for a body has z >= 0 whenever the body is in
\* ground contact when the forces are assembled (at its position after the
\* position half step, which is its position at the end of the step)
C18_LandingMaskLast ==
    (call.op = "step" /\ status = "ok") =>
        \A i \in SomiteIds :
            ground_contact(somites[i]) => somites[i].force.z >= 0

C18_Witness ==
    /\ call.op = "step" /\ status = "ok"
    /\ \E i \in SomiteIds :
          /\ ground_contact(somites[i])
          /\ somites[i].force.z = 0
          /\ somites[i].force.x # 0
    /\ \E i \in SomiteIds : ~ground_contact(somites[i]) /\ somites[i].force.z < 0

\* C19: on the chain of five somites with no oscillator and no gripper, at
\* rest on the default flat terrain, a step with a time step other than zero
\* completes, and after it every somite has z-velocity >= 0 and z >= radius
C19_RestingChainDoesNotSink ==
    (call.op = "step" /\ call.arg[1] # 0) =>
        /\ status = "ok"
        /\ \A i \in DOMAIN somites :
              /\ somites[i].verocity.z >= 0
              /\ somites[i].position.z >= somite_radius

C19_Witness ==
    /\ call.op = "step" /\ call.arg[1] # 0 /\ status = "ok"
    /\ DOMAIN somites = 0 .. 4
    /\ DOMAIN oscillators = {} /\ DOMAIN gripping_oscillators = {}
    /\ \A i \in DOMAIN somites : somites[i].position.z = somite_radius
    /\ frictional_forces[0] # Zero

\* C20: a step adds normal_angular_velocity * dt to the phase of every
\* locomotion and every gripper oscillator; a step with feedbacks adds
\* (normal_angular_velocity + f[i]) * dt to the oscillator on the i-th
\* smallest somite id that carries one, whatever order the hash map yields
feedback_of(ids, id, f) == f[OrderOf(ids, id) + 1]

C20_OscillatorAdvance ==
    [][/\ (call'.op = "step" /\ status' = "ok") =>
            /\ \A id \in DOMAIN oscillators :
                  oscillators'[id] =
                     oscillators[id] + normal_angular_velocity * call'.arg[1]
            /\ \A id \in DOMAIN gripping_oscillators :
                  gripping_oscillators'[id] =
                     gripping_oscillators[id] + normal_angular_velocity * call'.arg[1]
       /\ (call'.op = "step_with_feedback" /\ status' = "ok") =>
            \A id \in DOMAIN oscillators :
                oscillators'[id] =
                   oscillators[id]
                   + (normal_angular_velocity
                        + feedback_of(DOMAIN oscillators, id, call'.arg[2]))
                     * call'.arg[1]]_vars

\* the call just made asked for the shear force on a released somite in ground
\* contact; its arguments by name
shear_asked == call'.op = "Dynamics::calculate_somite_shear_force"
shear_vx == call'.arg[1]
shear_fx == call'.arg[4]
shear_normal == Max(0, -call'.arg[5])
shear_result == call'.arg[7]
released_on_ground == ~call'.arg[3] /\ call'.arg[2] <= somite_radius

\* C21: for a released somite in ground contact with no horizontal velocity, an
\* applied horizontal force above static_coeff * N is met by a friction of
\* magnitude static_coeff * N, opposite in sign to the applied force
C21_StaticFrictionSaturates ==
    [][(/\ shear_asked /\ released_on_ground /\ shear_vx = 0
        /\ Abs(shear_fx) > static_friction_coeff * shear_normal) =>
            /\ Abs(shear_result) = static_friction_coeff * shear_normal
            /\ shear_result * shear_fx <= 0
            /\ (shear_normal > 0 => shear_result * shear_fx < 0)
            /\ call'.arg[8] = 0]_vars

C21_Witness ==
    /\ call.op = "Dynamics::calculate_somite_shear_force"
    /\ call.arg = <<0, somite_radius, FALSE, 20, -6, TRUE, -18, 0>>

\* C22: for a released somite in ground contact with no horizontal velocity, an
\* applied horizontal force within static_coeff * N is cancelled exactly; with
\* a horizontal velocity v the friction is
\* -sign(v) * dynamic_coeff * N - viscous_coeff * v
C22_StaticFrictionCancels ==
    [][(shear_asked /\ released_on_ground) =>
            /\ (/\ shear_vx = 0
                /\ Abs(shear_fx) <= static_friction_coeff * shear_normal) =>
                    shear_result + shear_fx = 0
            /\ shear_vx # 0 =>
                    shear_result =
                        -Signum(shear_vx) * dynamic_friction_coeff * shear_normal
                        - viscosity_friction_coeff * shear_vx]_vars

C22_Witness ==
    /\ call.op = "Dynamics::calculate_somite_shear_force"
    /\ call.arg = <<0, somite_radius, FALSE, 5, -6, TRUE, -5, 0>>

\* the unit vector a quarter turn from v about the y axis, for v along x or z
quarter_turn(v) == Coordinate(Signum(v.z), 0, -Signum(v.x))

\* the pair the guard lets through for the spring k, the joint and the angle d
scaled_pair(k, joint, d) ==
    <<Mul(quarter_turn(Add(joint[3], Mul(joint[2], -1))), (k[1] + k[2] * Abs(d)) * d),
      Mul(quarter_turn(Add(joint[2], Mul(joint[1], -1))), (k[1] + k[2] * Abs(d)) * d)>>

\* C23: force_on_discrepancy returns the zero pair exactly when the discrepancy
\* is within epsilon of zero; for a discrepancy d of either sign beyond it the
\* pair is the two normals scaled by (k0 + k1 * |d|) * d, which is not zero
C23_DiscrepancyGuard ==
    [][call'.op = "TorsionSpring::force_on_discrepancy" =>
        IF Abs(call'.arg[3]) < TS_EPSILON
        THEN call'.arg[4] = <<Zero, Zero>>
        ELSE /\ call'.arg[4] = scaled_pair(call'.arg[1], call'.arg[2], call'.arg[3])
             /\ call'.arg[4][1] # Zero
             /\ call'.arg[4][2] # Zero]_vars

\* the simulator after one call of step_with_feedbacks(dt, fs, fg) that is
\* handed tuples of the right length
single_step(st, dt, fs, fg) ==
    IF st.status = "panic" THEN st
    ELSE update_state(advance_with_feedbacks(st, dt, fs, fg), dt, ZeroForces)

\* the simulator after n consecutive calls of step_with_feedbacks(dt, fs, fg)
RECURSIVE consecutive_steps(_, _, _, _, _)
consecutive_steps(st, n, dt, fs, fg) ==
    IF n = 0 THEN st
    ELSE consecutive_steps(single_step(st, dt, fs, fg), n - 1, dt, fs, fg)

\* C24: steps_with_feedbacks(dt, n, fs, fg) leaves the simulator (phases,
\* bodies, grip states, stored forces, frame counter, exported frames) in the
\* state n consecutive calls of step_with_feedbacks(dt, fs, fg) leave it in;
\* tuples of the wrong length fail either call with the simulator untouched
C24_BatchIsRepeatedSingle ==
    [][/\ call'.op = "step_with_feedbacks" =>
            IF wrong_length(call') THEN status' = "panic" /\ UNCHANGED simvars
            ELSE St' = single_step(St, call'.arg[1], call'.arg[4], call'.arg[5])
       /\ call'.op = "steps_with_feedbacks" =>
            IF wrong_length(call') THEN status' = "panic" /\ UNCHANGED simvars
            ELSE St' = consecutive_steps(St, call'.arg[2], call'.arg[1],
                                         call'.arg[5], call'.arg[6])]_vars

\* a batch of two steps with non-zero feedback has run
C24_Witness ==
    /\ status = "ok"
    /\ call.op = "steps_with_feedbacks"
    /\ call.arg[2] = 2
    /\ call.arg[5] = <<1>>
    /\ call.arg[6] = <<2, 0>>
    /\ frame_count = 2

\* C25: set_oscillation_ranges, handed one value per oscillator, completes
\* and stores the i-th value as the range of the oscillator on the i-th
\* smallest assigned somite id, whatever somites carry the oscillators, and
\* changes nothing else
C25_RangesSetInIdOrder ==
    [][(/\ call'.op = "set_oscillation_ranges"
        /\ Len(call'.arg[1]) = Cardinality(DOMAIN oscillators)) =>
            /\ status' = "ok"
            /\ oscillation_ranges' =
                  [id \in DOMAIN oscillators |->
                      call'.arg[1][OrderOf(DOMAIN oscillators, id) + 1]]
            /\ UNCHANGED <<somites, temp_forces, oscillators, gripping_oscillators,
                           gripping_thresholds, target_angles, frictional_forces,
                           gripping_forces, actuator_target_angles, frame_count,
                           frames, dynamics, path_heights>>]_vars

\* the simulator with the j-th angle (from 0) pinned on joint j + 1 and the
\* gripper oscillator on the i-th smallest gripper id set to the i-th phase
pinned(st, sa, ga) ==
    [st EXCEPT
        !.target_angles =
            [k \in DOMAIN @ \cup {j + 1 : j \in 0 .. (Len(sa) - 1)} |->
                IF k - 1 \in 0 .. (Len(sa) - 1) THEN sa[k] ELSE @[k]],
        !.gripping_oscillators =
            [id \in DOMAIN @ |-> ga[OrderOf(DOMAIN @, id) + 1]]]

\* C26: step_with_target_angles with tuples of the right length advances no
\* oscillator: the locomotion phases stay, the gripper oscillator on the i-th
\* smallest gripper id is at the i-th supplied phase, the j-th supplied angle
\* is pinned on joint j + 1, and one state update is performed on that
C26_TargetAnglesPreservePhase ==
    [][(call'.op = "step_with_target_angles" /\ ~wrong_length(call')) =>
            /\ oscillators' = oscillators
            /\ \A id \in DOMAIN gripping_oscillators :
                  gripping_oscillators'[id] =
                      call'.arg[5][OrderOf(DOMAIN gripping_oscillators, id) + 1]
            /\ \A j \in 0 .. (Len(call'.arg[4]) - 1) :
                  target_angles'[j + 1] = call'.arg[4][j + 1]
            /\ St' = update_state(pinned(St, call'.arg[4], call'.arg[5]),
                                  call'.arg[1], ZeroForces)
            /\ frame_count' = frame_count + 1]_vars

\* after a plain step has turned the oscillators, a step with pinned angles
\* has set the gripper phases and kept the locomotion phase
C26_Witness ==
    /\ status = "ok"
    /\ call.op = "step_with_target_angles"
    /\ call.arg[4] = <<20>>
    /\ call.arg[5] = <<2, 6>>
    /\ oscillators[1] = 2
    /\ gripping_oscillators[0] = 2
    /\ gripping_oscillators[2] = 6
    /\ target_angles[1] = 20

\* C27: over step calls alone, a body that is gripped at the end of a step is
\* at the height of its anchor, from the step that engaged the grip on
C27_GrippedAtAnchorHeight ==
    \A i \in DOMAIN somites :
        is_gripping(somites[i]) =>
            somites[i].position.z = somites[i].gripping_point.z

\* a body has been held through a step that pulled it upwards and sideways:
\* it has left its anchor, at the anchor's height
C27_Witness ==
    /\ status = "ok"
    /\ call.op = "step"
    /\ \E i \in DOMAIN somites :
          /\ is_gripping(somites[i])
          /\ somites[i].position # somites[i].gripping_point
          /\ somites[i].position.z = somites[i].gripping_point.z

\* C28: after construction and any steps and tunable calls, a body that was
\* given no gripper at construction is released and has no anchor, and the
\* gripper oscillators and the grip thresholds are keyed by exactly the
\* somites that were given one
C28_OnlyGrippersGrip ==
    /\ \A i \in DOMAIN somites \ somites_to_set_gripper :
          /\ ~is_gripping(somites[i])
          /\ get_gripping_point(somites[i]) = <<>>
    /\ DOMAIN gripping_oscillators = somites_to_set_gripper
    /\ DOMAIN gripping_thresholds = somites_to_set_gripper

\* a gripper holds while the body without gripper rests on the ground, its
\* locomotion oscillator in the part of the cycle where grippers engage
C28_Witness ==
    /\ status = "ok"
    /\ call.op \in StepOps
    /\ \E i \in somites_to_set_gripper : is_gripping(somites[i])
    /\ \E i \in DOMAIN oscillators \ somites_to_set_gripper :
          /\ Sin10(oscillators[i]) < dynamics.grip_phase_threshold
          /\ PathHeights_is_on_ground(path_heights, somites[i])
          /\ ~is_gripping(somites[i])

C30_ReadOutsOfThisStep ==
    [][(call'.op \in StepOps /\ OneUpdate) =>
        \A i \in DOMAIN somites :
            /\ gripping_forces'[i] # Zero => is_gripping(somites'[i])
            /\ frictional_forces'[i] # Zero =>
                  /\ ~is_gripping(somites'[i])
                  /\ PathHeights_is_on_ground(path_heights, somites'[i])
            /\ (/\ ~is_gripping(somites'[i])
                /\ ~PathHeights_is_on_ground(path_heights, somites'[i])) =>
                  /\ gripping_forces'[i] = Zero
                  /\ frictional_forces'[i] = Zero]_vars

TypeOK == status \in {"ok", "panic"}

====
